---- MODULE Spec2Model ----
(***************************************************************************)
(* Firmware update pipeline of the Seeed mode (src/mu/modes/seeed.py).     *)
(*                                                                         *)
(* Two threads share the FirmwareUpdater and Info objects:                 *)
(*   - the UI thread runs SeeedMode.__asyc_detect_new_device_handle for    *)
(*     every detection event and SeeedMode.__confirm for every prompt;     *)
(*   - the worker thread runs FirmwareUpdater.run: update_lib(), then the  *)
(*     loop  wait for detected / update() / detected = False.              *)
(* The worker's code is cut at every place where it reads a field the UI   *)
(* thread writes (board_id, board_name, in_bootload_mode, has_firmware,    *)
(* detected), so that every interleaving of the two threads is a behaviour *)
(* of the model.  Variables named like the code are the program's state;   *)
(* the variables of the last VARIABLES line only record what happened      *)
(* (history variables) and are never read by the program's steps.          *)
(***************************************************************************)
EXTENDS Integers, Sequences, FiniteSets, TLC

VARIABLES
    detected, in_bootload_mode, need_confirm,   \* FirmwareUpdater fields
    board_id, board_name, has_firmware,         \* Info fields
    config,                                     \* Info.__config
    cfgFile, fwFiles,                           \* local cache on disk
    comOpen, flag, buttons,                     \* QSerialPort, ConfirmFlag, set_all_button
    pc, old_version, new_version,               \* worker: position and locals
    need_update, has_seeed_firmware, tries,
    uipc,                                       \* UI thread: position in the handler
    active, flashProcs,                         \* update() calls / tool processes running
    log, sess, unserved, credit, phase1,
    dl, cat, det, cmp, tog, lib

vars == <<detected, in_bootload_mode, need_confirm, board_id, board_name,
          has_firmware, config, cfgFile, fwFiles, comOpen, flag, buttons,
          pc, old_version, new_version, need_update, has_seeed_firmware,
          tries, uipc, active, flashProcs,
          log, sess, unserved, credit, phase1,
          dl, cat, det, cmp, tog, lib>>

shared == <<detected, in_bootload_mode, board_id, board_name, has_firmware>>
files  == <<config, cfgFile, fwFiles>>
locals == <<old_version, new_version, need_update, has_seeed_firmware, tries>>
\* the state of one call of download(), of one Info() construction, of one
\* run of the detection handler, of one version comparison, of the panes of
\* SeeedMode and of one call of update_lib()
side   == <<dl, cat, det, cmp, tog, lib>>
ghost  == <<log, sess, unserved, credit, phase1>>

----------------------------------------------------------------------------
(* Bounds of the model *)

\* firmware versions are the dates 0..MaxVer, ordered as the calendar orders them
MaxVer == 1
\* QSerialPortInfo.availablePorts() returns at most MaxPorts ports
MaxPorts == 2
\* a response body is written in at most MaxBlocks blocks of 16 KiB
MaxBlocks == 2
\* info.json lists at most MaxEntries boards under 'boot' and under 'normal'
MaxEntries == 2
\* version dates range over MaxYears + 1 years from 2000, the first MaxMonth
\* months of a year and the first MaxDay days of a month
\* the remote library list names at most MaxLibs libraries
MaxLibs == 2
MaxYears == 1
MaxMonth == 3
MaxDay == 3

Versions == 0 .. MaxVer
DeviceNames == {"ttyACM0", "ttyACM1"}
FwNames == {"ardupy.bin"}

(* Program constants *)

\* datetime.datetime(2000, 1, 1): the baseline when no config file is cached
BaselineVersion == 0
\* the year of datetime.datetime(2000, 1, 1)
BaseYear == 2000
\* download(..., try_time=3): no caller passes another value
TryTime == 3
\* for i in range(3): attempts to open the port for the probe
ProbeTries == 3

----------------------------------------------------------------------------
(* The board catalog: Info.__init__ fills board_normal, board_boot and     *)
(* dic_config from info.json.  One board, listed with its normal-mode and  *)
(* its bootloader-mode (vendor, product) pair; "X" is a pair not listed.   *)

PVIDs == {"N1", "B1", "X"}
board_normal == <<"N1">>
board_boot == <<"B1">>
dic_config == [k \in {"N1", "B1"} |-> "config-A.json"]

NoConfig == [ok |-> FALSE, version |-> 0, name |-> "none"]
Configs == [ok : {TRUE}, version : Versions, name : FwNames]
NoFlag == [hint |-> "none", confirm |-> "none"]
NoSess == [name |-> "None", boot |-> FALSE, nc |-> TRUE,
           disturbed |-> FALSE, probed |-> -2, remoteOk |-> FALSE,
           fwTried |-> FALSE, port |-> "None"]

InSeq(x, s) == \E j \in 1 .. Len(s) : s[j] = x
Count(e, s) == Cardinality({j \in 1 .. Len(s) : s[j] = e})

\* the inner function match(pvid, ids) and the loop over available_ports
RECURSIVE Match(_)
Match(ports) ==
    IF ports = <<>> THEN [hit |-> FALSE, id |-> "None", boot |-> FALSE]
    ELSE IF InSeq(Head(ports), board_normal)
         THEN [hit |-> TRUE, id |-> Head(ports), boot |-> FALSE]
    ELSE IF InSeq(Head(ports), board_boot)
         THEN [hit |-> TRUE, id |-> Head(ports), boot |-> TRUE]
    ELSE Match(Tail(ports))

PortLists == UNION {[1 .. n -> PVIDs] : n \in 0 .. MaxPorts}

\* self.dic_config[self.board_id] raises KeyError for an unknown board_id
HasConfigPath == board_id \in DOMAIN dic_config

\* no call of download() is in progress
DlIdle == [pc |-> "idle", i |-> 0, des |-> "absent", tmp |-> "absent",
           pre |-> "absent", held |-> FALSE, nt |-> FALSE,
           size |-> 0, n |-> 0, reqs |-> 0]

\* no Info object is under construction
CatIdle == [pc |-> "idle", inf |-> [boot |-> <<>>, normal |-> <<>>], k |-> 0,
            board_boot |-> <<>>, board_normal |-> <<>>, dic_config |-> <<>>]

\* the detection handler is not running
DetIdle == [pc |-> "idle", device_name |-> "None", ports |-> <<>>,
            board_boot |-> <<>>, board_normal |-> <<>>, k |-> 0,
            board_id |-> "None", board_name |-> "None",
            in_bootload_mode |-> FALSE, detected |-> FALSE]

\* no version is being compared
NoDate == [y |-> 0, m |-> 0, d |-> 0]
CmpIdle == [pc |-> "idle", a |-> NoDate, b |-> NoDate, cfg |-> <<>>,
            tmp |-> <<>>, new_version |-> NoDate, dev |-> NoDate,
            need_update |-> TRUE]

\* SeeedMode as constructed: no pane is open, every button is enabled
TogIdle == [fs |-> FALSE, repl |-> FALSE, plotter |-> FALSE,
            has_firmware |-> FALSE, message |-> "none",
            files |-> TRUE, run |-> TRUE, replb |-> TRUE, plotterb |-> TRUE]

\* update_lib() has not been called
LibIdle == [pc |-> "idle", list |-> <<>>, k |-> 0, has_new |-> FALSE,
            listFile |-> "old", info |-> "old", zips |-> {}]

MainInit ==
    /\ detected = FALSE /\ in_bootload_mode = FALSE /\ need_confirm = TRUE
    /\ board_id = "None" /\ board_name = "None" /\ has_firmware = FALSE
    /\ config = NoConfig
    /\ cfgFile \in {NoConfig} \cup Configs
    /\ fwFiles \in SUBSET FwNames
    /\ comOpen = FALSE /\ flag = NoFlag /\ buttons = "none"
    /\ pc = "lib" /\ old_version = 0 /\ new_version = 0
    /\ need_update = TRUE /\ has_seeed_firmware = TRUE /\ tries = 0
    /\ uipc = "idle"
    /\ active = 0 /\ flashProcs = 0
    /\ log = <<>> /\ sess = NoSess /\ unserved = FALSE
    /\ credit = [sw |-> 0, fl |-> 0] /\ phase1 = FALSE

Init ==
    /\ MainInit
    /\ dl = DlIdle /\ cat = CatIdle /\ det = DetIdle /\ cmp = CmpIdle
    /\ tog = TogIdle /\ lib = LibIdle


----------------------------------------------------------------------------
(* UI thread *)

InSession == pc \in {"update", "download", "mode", "probe", "probe_read",
                     "dtb", "confirm", "dtb_act", "flashing"}

\* history: a detection event touched the identity fields after the last
\* update() was entered
Disturb == [sess EXCEPT !.disturbed = @ \/ pc \notin {"lib", "wait"}]

\* __asyc_detect_new_device_handle, first three assignments
DetectBegin(device_name) ==
    /\ uipc = "idle"
    /\ has_firmware' = FALSE
    /\ board_id' = "None"
    /\ board_name' = device_name
    /\ uipc' = "scan"
    /\ sess' = Disturb
    /\ UNCHANGED <<detected, in_bootload_mode, need_confirm, files, comOpen,
                   flag, buttons, pc, locals, active, flashProcs,
                   log, unserved, credit>>
    /\ UNCHANGED <<phase1, side>>

\* __asyc_detect_new_device_handle, the loop over available_ports and
\* self.invoke.detected = True.  The worker reads detected only while it
\* waits, where it reads nothing the loop writes, so the two are one step.
DetectFinish(ports) ==
    /\ uipc = "scan"
    /\ LET m == Match(ports) IN
         /\ board_id' = IF m.hit THEN m.id ELSE board_id
         /\ in_bootload_mode' = IF m.hit THEN m.boot ELSE in_bootload_mode
    /\ detected' = TRUE
    /\ uipc' = "idle"
    /\ unserved' = TRUE
    /\ sess' = Disturb
    /\ UNCHANGED <<need_confirm, board_name, has_firmware, files,
                   comOpen, flag, buttons, pc, locals, active, flashProcs,
                   log, credit>>
    /\ UNCHANGED <<phase1, side>>

\* SeeedMode.__confirm: the user answers the prompt
Answer(ok) ==
    /\ uipc = "idle"
    /\ flag.hint # "none" /\ flag.confirm = "None"
    /\ flag' = [flag EXCEPT !.confirm = IF ok THEN "yes" ELSE "no"]
    /\ credit' = IF ok THEN [sw |-> 1, fl |-> 1] ELSE credit
    /\ UNCHANGED <<shared, need_confirm, files, comOpen, buttons, pc, locals,
                   uipc, active, flashProcs, log, sess, unserved>>
    /\ UNCHANGED <<phase1, side>>

----------------------------------------------------------------------------
(* Worker thread: FirmwareUpdater.run *)

\* update_lib() at the head of run(); the library files are not part of the state
UpdateLib ==
    /\ pc = "lib"
    /\ pc' = "wait"
    /\ UNCHANGED <<shared, need_confirm, files, comOpen, flag, buttons, locals,
                   uipc, active, flashProcs, ghost>>
    /\ UNCHANGED side

\* mutant of RunStartUpdate: update() is started without waiting for it to
\* return, the loop goes on polling detected
RunStartUpdateAsync ==
    /\ pc = "wait"
    /\ detected
    /\ active' = active + 1
    /\ unserved' = FALSE
    /\ UNCHANGED <<shared, need_confirm, files, comOpen, flag, buttons, pc,
                   locals, uipc, flashProcs, log, sess, credit>>
    /\ UNCHANGED <<phase1, side>>

\* while not self.detected: sleep; then self.update() is entered
RunStartUpdate ==
    /\ pc = "wait"
    /\ detected
    /\ pc' = "update"
    /\ active' = active + 1
    /\ need_update' = TRUE
    /\ has_seeed_firmware' = TRUE
    /\ tries' = 0
    /\ old_version' = 0 /\ new_version' = 0
    /\ log' = <<>>
    /\ sess' = [name |-> board_name, boot |-> in_bootload_mode,
                nc |-> need_confirm, disturbed |-> uipc # "idle",
                probed |-> -2, remoteOk |-> FALSE, fwTried |-> FALSE,
                port |-> "None"]
    /\ unserved' = FALSE
    /\ UNCHANGED <<shared, need_confirm, files, comOpen, flag, buttons, uipc,
                   flashProcs, credit>>
    /\ UNCHANGED <<phase1, side>>

\* update() has returned: self.detected = False, back to the wait loop.
\* The locals of the finished call are dead and are reset here.
RunClearDetected ==
    /\ pc = "clear"
    /\ detected' = FALSE
    /\ pc' = "wait"
    /\ old_version' = 0 /\ new_version' = 0
    /\ need_update' = TRUE /\ has_seeed_firmware' = TRUE /\ tries' = 0
    /\ log' = <<>>
    /\ sess' = NoSess
    /\ phase1' = (/\ ~sess.disturbed /\ sess.nc /\ ~sess.boot
                  /\ sess.remoteOk /\ old_version < new_version
                  /\ sess.probed >= 0 /\ sess.probed < new_version
                  /\ InSeq("yes", log) /\ InSeq("switch_ok", log))
    /\ UNCHANGED <<in_bootload_mode, need_confirm, board_id, board_name,
                   has_firmware, files, comOpen, flag, buttons, uipc,
                   active, flashProcs, unserved, credit, side>>

\* an exception leaves update() and run(): the worker thread ends
Raise ==
    /\ pc' = "crashed"
    /\ active' = 0

\* a return statement of update() or of download_to_board() called last by it
Return ==
    /\ pc' = "clear"
    /\ active' = active - 1


----------------------------------------------------------------------------
(* FirmwareUpdater.update *)

\* mutant of NeedUpdate: an equal version counts as an update
NeedUpdateGe(new, ver) == new >= ver

\* need_update = new_version > strptime(ver)
NeedUpdate(new, ver) == new > ver

\* an update() that refreshes the metadata in every session
UpdateReadCacheAlwaysDownloads ==
    /\ pc = "update"
    /\ IF ~HasConfigPath
       THEN /\ Raise
            /\ UNCHANGED <<files, old_version, new_version>>
       ELSE IF TRUE
       THEN /\ config' = IF cfgFile.ok THEN cfgFile ELSE config
            /\ old_version' = IF cfgFile.ok THEN cfgFile.version
                              ELSE BaselineVersion
            /\ pc' = "download"
            /\ UNCHANGED <<cfgFile, fwFiles, new_version, active>>
       ELSE IF cfgFile.ok
       THEN /\ config' = cfgFile
            /\ new_version' = cfgFile.version
            /\ pc' = "mode"
            /\ UNCHANGED <<cfgFile, fwFiles, old_version, active>>
       ELSE /\ Raise
            /\ UNCHANGED <<files, old_version, new_version>>
    /\ UNCHANGED <<shared, need_confirm, comOpen, flag, buttons, need_update,
                   has_seeed_firmware, tries, uipc, flashProcs,
                   log, sess, unserved, credit>>
    /\ UNCHANGED <<phase1, side>>

\* update(), the local baseline: lines 691-697, and 720-721 when the
\* confirmation was pre-cleared by a mode switch
UpdateReadCache ==
    /\ pc = "update"
    /\ IF ~HasConfigPath
       THEN /\ Raise
            /\ UNCHANGED <<files, old_version, new_version>>
       ELSE IF need_confirm
       THEN /\ config' = IF cfgFile.ok THEN cfgFile ELSE config
            /\ old_version' = IF cfgFile.ok THEN cfgFile.version
                              ELSE BaselineVersion
            /\ pc' = "download"
            /\ UNCHANGED <<cfgFile, fwFiles, new_version, active>>
       ELSE IF cfgFile.ok
       THEN /\ config' = cfgFile
            /\ new_version' = cfgFile.version
            /\ pc' = "mode"
            /\ UNCHANGED <<cfgFile, fwFiles, old_version, active>>
       ELSE /\ Raise
            /\ UNCHANGED <<files, old_version, new_version>>
    /\ UNCHANGED <<shared, need_confirm, comOpen, flag, buttons, need_update,
                   has_seeed_firmware, tries, uipc, flashProcs,
                   log, sess, unserved, credit>>
    /\ UNCHANGED <<phase1, side>>

\* a metadata failure that falls back to 2000-01-01 instead of the cache
UpdateDownloadResetBaseline(cfgOk, remote, fwOk) ==
    /\ pc = "download"
    /\ IF ~HasConfigPath
       THEN /\ Raise
            /\ UNCHANGED <<files, new_version, sess>>
       ELSE /\ pc' = "mode"
            /\ UNCHANGED active
            /\ sess' = [sess EXCEPT !.remoteOk = cfgOk,
                                    !.fwTried = /\ cfgOk
                                                /\ old_version < remote.version
                                                /\ remote.name \notin fwFiles]
            /\ IF cfgOk
               THEN /\ cfgFile' = remote
                    /\ config' = remote
                    /\ new_version' = remote.version
                    /\ fwFiles' = IF /\ old_version < remote.version
                                     /\ remote.name \notin fwFiles
                                     /\ fwOk
                                  THEN fwFiles \cup {remote.name}
                                  ELSE fwFiles
               ELSE /\ new_version' = BaselineVersion
                    /\ UNCHANGED files
    /\ UNCHANGED <<shared, need_confirm, comOpen, flag, buttons, old_version,
                   need_update, has_seeed_firmware, tries, uipc, flashProcs,
                   log, unserved, credit>>
    /\ UNCHANGED <<phase1, side>>

\* an image download that is attempted whenever the metadata arrived
UpdateDownloadEager(cfgOk, remote, fwOk) ==
    /\ pc = "download"
    /\ IF ~HasConfigPath
       THEN /\ Raise
            /\ UNCHANGED <<files, new_version, sess>>
       ELSE /\ pc' = "mode"
            /\ UNCHANGED active
            /\ sess' = [sess EXCEPT !.remoteOk = cfgOk,
                                    !.fwTried = cfgOk]
            /\ IF cfgOk
               THEN /\ cfgFile' = remote
                    /\ config' = remote
                    /\ new_version' = remote.version
                    /\ fwFiles' = IF fwOk
                                  THEN fwFiles \cup {remote.name}
                                  ELSE fwFiles
               ELSE /\ new_version' = old_version
                    /\ UNCHANGED files
    /\ UNCHANGED <<shared, need_confirm, comOpen, flag, buttons, old_version,
                   need_update, has_seeed_firmware, tries, uipc, flashProcs,
                   log, unserved, credit>>
    /\ UNCHANGED <<phase1, side>>

\* update(), lines 699-718: download of the metadata, then of the image.
\* cfgOk / fwOk are the results of the two download() calls, remote the
\* document the server holds
UpdateDownload(cfgOk, remote, fwOk) ==
    /\ pc = "download"
    /\ IF ~HasConfigPath
       THEN /\ Raise
            /\ UNCHANGED <<files, new_version, sess>>
       ELSE /\ pc' = "mode"
            /\ UNCHANGED active
            /\ sess' = [sess EXCEPT !.remoteOk = cfgOk,
                                    !.fwTried = /\ cfgOk
                                                /\ old_version < remote.version
                                                /\ remote.name \notin fwFiles]
            /\ IF cfgOk
               THEN /\ cfgFile' = remote
                    /\ config' = remote
                    /\ new_version' = remote.version
                    /\ fwFiles' = IF /\ old_version < remote.version
                                     /\ remote.name \notin fwFiles
                                     /\ fwOk
                                  THEN fwFiles \cup {remote.name}
                                  ELSE fwFiles
               ELSE /\ new_version' = old_version
                    /\ UNCHANGED files
    /\ UNCHANGED <<shared, need_confirm, comOpen, flag, buttons, old_version,
                   need_update, has_seeed_firmware, tries, uipc, flashProcs,
                   log, unserved, credit>>
    /\ UNCHANGED <<phase1, side>>

\* update(), lines 723-725: a board in bootloader mode is not probed;
\* download_to_board(new_version) is called with its default arguments
UpdateBranch ==
    /\ pc = "mode"
    /\ IF in_bootload_mode
       THEN /\ pc' = "dtb"
            /\ need_update' = TRUE
            /\ has_seeed_firmware' = FALSE
       ELSE /\ pc' = "probe"
            /\ UNCHANGED <<need_update, has_seeed_firmware>>
    /\ UNCHANGED <<shared, need_confirm, files, comOpen, flag, buttons,
                   old_version, new_version, tries, uipc, active, flashProcs,
                   log, sess, unserved, credit>>
    /\ UNCHANGED <<phase1, side>>

\* update(), lines 727-734 and 763: one attempt to open the port
ProbeOpen(opened) ==
    /\ pc = "probe"
    /\ IF opened
       THEN /\ comOpen' = TRUE
            /\ pc' = "probe_read"
            /\ sess' = [sess EXCEPT !.port = board_name]
            /\ UNCHANGED <<tries, active, log>>
       ELSE /\ tries' = tries + 1
            /\ UNCHANGED <<comOpen, sess>>
            /\ IF tries + 1 = ProbeTries
               THEN /\ Return
                    /\ log' = Append(log, "giveup")
               ELSE UNCHANGED <<pc, active, log>>
    /\ UNCHANGED <<shared, need_confirm, files, flag, buttons, old_version,
                   new_version, need_update, has_seeed_firmware, uipc,
                   flashProcs, unserved, credit>>
    /\ UNCHANGED <<phase1, side>>

\* update(), lines 744-757: what the board answered to the handshake, and the
\* parse of it: str(buf), tmp.index(marker), strptime(tmp[r - 10:r]); each of
\* the three raises inside the try block when it fails
ProbeAnswers ==
    [kind : {"silent", "nomarker", "baddate"}, ver : {BaselineVersion}]
        \cup [kind : {"dated"}, ver : Versions]
ProbeParse(a) == IF a.kind = "dated" THEN a.ver ELSE -1

\* a probe that takes an unreadable answer for an up to date board
ProbeReadNoFirmwareIsLatest(resp) ==
    /\ pc = "probe_read"
    /\ comOpen
    /\ comOpen' = FALSE
    /\ sess' = [sess EXCEPT !.probed = resp, !.port = "None"]
    /\ need_update' = IF resp = -1 THEN FALSE
                      ELSE NeedUpdate(new_version, resp)
    /\ has_seeed_firmware' = IF resp = -1 THEN FALSE ELSE has_seeed_firmware
    /\ has_firmware' = IF resp = -1 THEN has_firmware ELSE TRUE
    /\ IF need_update'
       THEN /\ pc' = "dtb"
            /\ UNCHANGED <<active, log>>
       ELSE /\ Return
            /\ log' = Append(log, "latest")
    /\ UNCHANGED <<detected, in_bootload_mode, need_confirm, board_id,
                   board_name, files, flag, buttons, old_version, new_version,
                   tries, uipc, flashProcs, unserved, credit>>
    /\ UNCHANGED <<phase1, side>>


\* a probe that closes the port only after a successful parse
ProbeReadKeepsPortOnError(resp) ==
    /\ pc = "probe_read"
    /\ comOpen
    /\ comOpen' = (resp = -1)
    /\ sess' = [sess EXCEPT !.probed = resp, !.port = "None"]
    /\ need_update' = IF resp = -1 THEN need_update
                      ELSE NeedUpdate(new_version, resp)
    /\ has_seeed_firmware' = IF resp = -1 THEN FALSE ELSE has_seeed_firmware
    /\ has_firmware' = IF resp = -1 THEN has_firmware ELSE TRUE
    /\ IF need_update'
       THEN /\ pc' = "dtb"
            /\ UNCHANGED <<active, log>>
       ELSE /\ Return
            /\ log' = Append(log, "latest")
    /\ UNCHANGED <<detected, in_bootload_mode, need_confirm, board_id,
                   board_name, files, flag, buttons, old_version, new_version,
                   tries, uipc, flashProcs, unserved, credit>>
    /\ UNCHANGED <<phase1, side>>


\* update(), lines 735-762: the handshake; resp is the date in front of the
\* banner marker, or -1 when the answer holds no marker or no date
ProbeRead(resp) ==
    /\ pc = "probe_read"
    /\ comOpen
    /\ comOpen' = FALSE
    /\ sess' = [sess EXCEPT !.probed = resp, !.port = "None"]
    /\ need_update' = IF resp = -1 THEN need_update
                      ELSE NeedUpdate(new_version, resp)
    /\ has_seeed_firmware' = IF resp = -1 THEN FALSE ELSE has_seeed_firmware
    /\ has_firmware' = IF resp = -1 THEN has_firmware ELSE TRUE
    /\ IF need_update'
       THEN /\ pc' = "dtb"
            /\ UNCHANGED <<active, log>>
       ELSE /\ Return
            /\ log' = Append(log, "latest")
    /\ UNCHANGED <<detected, in_bootload_mode, need_confirm, board_id,
                   board_name, files, flag, buttons, old_version, new_version,
                   tries, uipc, flashProcs, unserved, credit>>
    /\ UNCHANGED <<phase1, side>>


----------------------------------------------------------------------------
(* FirmwareUpdater.download_to_board and FirmwareUpdater.flashing *)

\* mutant of FlashingOk: the exit status of the tool is not looked at
FlashingAlwaysOk(rc) == TRUE

\* flashing(): return sp.returncode == 0
FlashingOk(rc) == rc = 0

\* mutant of DtbEntry: the pre-clearance is ignored, every call asks
DtbEntryAlwaysAsk ==
    /\ pc = "dtb"
    /\ flag' = [hint |-> IF has_seeed_firmware THEN "new"
                         ELSE IF in_bootload_mode THEN "boot"
                         ELSE "nofw",
                confirm |-> "None"]
    /\ log' = Append(log, "confirm")
    /\ pc' = "confirm"
    /\ UNCHANGED <<shared, need_confirm, buttons, active, files, comOpen,
                   locals, uipc, flashProcs, sess, unserved, credit>>
    /\ UNCHANGED <<phase1, side>>

\* download_to_board(), lines 646-665: ask, or use the pre-clearance
DtbEntry ==
    /\ pc = "dtb"
    /\ IF need_confirm
       THEN /\ flag' = [hint |-> IF has_seeed_firmware THEN "new"
                                 ELSE IF in_bootload_mode THEN "boot"
                                 ELSE "nofw",
                        confirm |-> "None"]
                    /\ log' = Append(log, "confirm")
            /\ pc' = "confirm"
            /\ UNCHANGED <<need_confirm, buttons, active>>
       ELSE /\ UNCHANGED flag
            /\ IF ~in_bootload_mode
               THEN /\ buttons' = "on"
                    /\ log' = Append(log, "btn_on")
                    /\ Return
                    /\ UNCHANGED need_confirm
               ELSE /\ need_confirm' = TRUE
                    /\ pc' = "dtb_act"
                    /\ UNCHANGED <<buttons, log, active>>
    /\ UNCHANGED <<shared, files, comOpen, locals, uipc, flashProcs,
                   sess, unserved, credit>>
    /\ UNCHANGED <<phase1, side>>

\* mutant of DtbConfirmed: a declined prompt emits set_all_button(True)
\* before it returns
DtbConfirmedDeclineReenables ==
    /\ pc = "confirm"
    /\ flag.confirm # "None"
    /\ flag' = NoFlag
    /\ IF flag.confirm = "yes"
       THEN /\ pc' = "dtb_act"
            /\ log' = Append(log, "yes")
            /\ UNCHANGED <<active, buttons>>
       ELSE /\ Return
            /\ buttons' = "on"
            /\ log' = log \o <<"no", "btn_on">>
    /\ UNCHANGED <<shared, need_confirm, files, comOpen, locals, uipc,
                   flashProcs, sess, unserved, credit>>
    /\ UNCHANGED <<phase1, side>>

\* mutant of DtbConfirmed: is_confirm reads the flag once instead of polling
\* it, an unanswered request counts as declined
DtbConfirmedNoWait ==
    /\ pc = "confirm"
    /\ flag' = NoFlag
    /\ log' = Append(log, IF flag.confirm = "yes" THEN "yes" ELSE "no")
    /\ IF flag.confirm = "yes"
       THEN /\ pc' = "dtb_act"
            /\ UNCHANGED active
       ELSE Return
    /\ UNCHANGED <<shared, need_confirm, files, comOpen, buttons, locals, uipc,
                   flashProcs, sess, unserved, credit>>
    /\ UNCHANGED <<phase1, side>>

\* download_to_board(), lines 659-660: ConfirmFlag.is_confirm has returned
DtbConfirmed ==
    /\ pc = "confirm"
    /\ flag.confirm # "None"
    /\ flag' = NoFlag
    /\ log' = Append(log, flag.confirm)
    /\ IF flag.confirm = "yes"
       THEN /\ pc' = "dtb_act"
            /\ UNCHANGED active
       ELSE Return
    /\ UNCHANGED <<shared, need_confirm, files, comOpen, buttons, locals, uipc,
                   flashProcs, sess, unserved, credit>>
    /\ UNCHANGED <<phase1, side>>

\* download_to_board(), lines 667-675 and the Popen of flashing(): the mode
\* switch (sttyOk: the stty command exits with status zero), or the start of
\* the flashing tool; Info.bossac raises when no config is loaded
DtbAct(sttyOk) ==
    /\ pc = "dtb_act"
    /\ buttons' = "off"
    /\ IF ~in_bootload_mode
       THEN /\ need_confirm' = FALSE
            /\ log' = log \o <<"btn_off", IF sttyOk THEN "switch_ok"
                                          ELSE "switch_fail">>
            /\ Return
            /\ credit' = [credit EXCEPT !.sw = 0]
            /\ UNCHANGED flashProcs
       ELSE IF ~config.ok
       THEN /\ Raise
            /\ log' = log \o <<"btn_off", "st_flashing">>
            /\ UNCHANGED <<need_confirm, flashProcs, credit>>
       ELSE /\ pc' = "flashing"
            /\ flashProcs' = flashProcs + 1
            /\ log' = log \o <<"btn_off", "st_flashing", "flash_run">>
            /\ credit' = [credit EXCEPT !.fl = 0]
            /\ UNCHANGED <<need_confirm, active>>
    /\ UNCHANGED <<shared, files, comOpen, flag, locals, uipc,
                   sess, unserved>>
    /\ UNCHANGED <<phase1, side>>

\* mutant of FlashExit: a failed run of the tool is repeated, three runs at most
FlashExitRetry(rc) ==
    /\ pc = "flashing"
    /\ IF rc # 0 /\ Count("flash_run", log) < 3
       THEN /\ log' = log \o <<"exit_fail", "flash_run">>
            /\ UNCHANGED <<pc, active, flashProcs, buttons, credit>>
       ELSE /\ flashProcs' = flashProcs - 1
            /\ log' = log \o <<IF rc = 0 THEN "exit_ok" ELSE "exit_fail">>
                           \o (IF rc = 0
                               THEN <<"msgbox", "st_success", "btn_on">>
                               ELSE <<"st_fail", "st_fail", "btn_on">>)
            /\ buttons' = "on"
            /\ credit' = [sw |-> 0, fl |-> 0]
            /\ Return
    /\ UNCHANGED <<shared, need_confirm, files, comOpen, flag, locals, uipc,
                   sess, unserved>>
    /\ UNCHANGED <<phase1, side>>

\* flashing(): sp.wait() returns rc; download_to_board(), lines 676-685
FlashExit(rc) ==
    /\ pc = "flashing"
    /\ flashProcs' = flashProcs - 1
    /\ log' = log \o <<IF rc = 0 THEN "exit_ok" ELSE "exit_fail">>
                   \o (IF FlashingOk(rc)
                       THEN <<"msgbox", "st_success", "btn_on">>
                       ELSE <<"st_fail", "st_fail", "btn_on">>)
    /\ buttons' = "on"
    /\ credit' = [sw |-> 0, fl |-> 0]
    /\ Return
    /\ UNCHANGED <<shared, need_confirm, files, comOpen, flag, locals, uipc,
                   sess, unserved>>
    /\ UNCHANGED <<phase1, side>>

----------------------------------------------------------------------------
Next ==
    \/ \E d \in DeviceNames : DetectBegin(d)
    \/ \E ports \in PortLists : DetectFinish(ports)
    \/ \E ok \in BOOLEAN : Answer(ok)
    \/ UpdateLib
    \/ RunStartUpdate
    \/ RunClearDetected
    \/ UpdateReadCache
    \/ \E cfgOk \in BOOLEAN, remote \in Configs, fwOk \in BOOLEAN :
          UpdateDownload(cfgOk, remote, fwOk)
    \/ UpdateBranch
    \/ \E opened \in BOOLEAN : ProbeOpen(opened)
    \/ \E a \in ProbeAnswers : ProbeRead(ProbeParse(a))
    \/ DtbEntry
    \/ DtbConfirmed
    \/ \E sttyOk \in BOOLEAN : DtbAct(sttyOk)
    \/ \E rc \in {0, 1} : FlashExit(rc)

Spec == Init /\ [][Next]_vars


----------------------------------------------------------------------------
(* download(des_path, source_path, timeout=5, try_time=3), one step per     *)
(* statement. des and tmp are the contents of des_path and des_path +       *)
(* '.tmp': "absent", "old" (des before the call), "stale" (a tmp left by an *)
(* earlier call), "part" (incomplete) or "new" (the complete response);     *)
(* held: the name file is bound to a file object that was not closed;       *)
(* nt: os.name is 'nt', the other platform the module supports.             *)

main == <<detected, in_bootload_mode, need_confirm, board_id, board_name,
          has_firmware, config, cfgFile, fwFiles, comOpen, flag, buttons,
          pc, old_version, new_version, need_update, has_seeed_firmware,
          tries, uipc, active, flashProcs,
          log, sess, unserved, credit, phase1>>

\* the worker has not been started
MainRest == MainInit /\ cfgFile = NoConfig /\ fwFiles = {}

InitDownload ==
    /\ MainRest
    /\ cat = CatIdle /\ det = DetIdle /\ cmp = CmpIdle
    /\ tog = TogIdle /\ lib = LibIdle
    /\ dl \in {[DlIdle EXCEPT !.pc = "loop", !.des = d, !.pre = d, !.tmp = t,
                              !.nt = w] :
                 d \in {"absent", "old"}, t \in {"absent", "stale"},
                 w \in BOOLEAN}

\* except Exception as ex: print(ex), and the next iteration
Except(d) == [d EXCEPT !.pc = "loop", !.i = @ + 1]

\* for i in range(0, try_time)
DlAttemptsLeft(i) == i < TryTime

DlLoop ==
    /\ dl.pc = "loop"
    /\ dl' = [dl EXCEPT !.pc = IF DlAttemptsLeft(dl.i) THEN "remove"
                               ELSE "false"]
    /\ UNCHANGED <<main, cat, det, cmp, tog, lib>>

\* if os.path.exists(tmp): os.remove(tmp). On nt os.remove raises for a
\* file that is still open.
DlRemoveTmp ==
    /\ dl.pc = "remove"
    /\ dl' = IF dl.tmp = "absent" THEN [dl EXCEPT !.pc = "get"]
             ELSE IF dl.nt /\ dl.held THEN Except(dl)
             ELSE [dl EXCEPT !.tmp = "absent", !.pc = "get"]
    /\ UNCHANGED <<main, cat, det, cmp, tog, lib>>

\* get = requests.get(source_path); get.raise_for_status(). The call has no
\* timeout argument: a server that never answers blocks it.
DlGet(outcome, blocks) ==
    /\ dl.pc = "get"
    /\ LET d == [dl EXCEPT !.reqs = @ + 1]
       IN  dl' = CASE outcome = "ok" -> [d EXCEPT !.pc = "open",
                                                  !.size = blocks]
                   [] outcome = "hang" -> [d EXCEPT !.pc = "blocked"]
                   [] OTHER -> Except(d)
    /\ UNCHANGED <<main, cat, det, cmp, tog, lib>>

\* file = open(tmp, 'wb'): the name is rebound, the file is created empty
DlOpen(ok) ==
    /\ dl.pc = "open"
    /\ dl' = IF ok
             THEN [dl EXCEPT !.pc = "write", !.tmp = "part", !.n = 0,
                             !.held = TRUE]
             ELSE Except(dl)
    /\ UNCHANGED <<main, cat, det, cmp, tog, lib>>

\* for block in get.iter_content(16 * 1024): file.write(block)
DlWrite(ok) ==
    /\ dl.pc = "write"
    /\ dl' = IF ~ok THEN Except(dl)
             ELSE IF dl.n + 1 = dl.size
             THEN [dl EXCEPT !.n = @ + 1, !.tmp = "new", !.pc = "close"]
             ELSE [dl EXCEPT !.n = @ + 1]
    /\ UNCHANGED <<main, cat, det, cmp, tog, lib>>

\* file.close()
DlClose ==
    /\ dl.pc = "close"
    /\ dl' = [dl EXCEPT !.held = FALSE, !.pc = "move"]
    /\ UNCHANGED <<main, cat, det, cmp, tog, lib>>

\* shutil.move(tmp, des_path); return True. shutil.move is os.rename, and
\* when os.rename raises (on nt: whenever the destination exists) a copy onto
\* the destination followed by os.unlink(tmp).
DlMove(ok) ==
    /\ dl.pc = "move"
    /\ dl' = IF dl.nt /\ dl.des # "absent"
             THEN IF ok
                  THEN [dl EXCEPT !.des = dl.tmp, !.tmp = "absent",
                                  !.pc = "true"]
                  ELSE Except([dl EXCEPT !.des = "part"])
             ELSE IF ok
                  THEN [dl EXCEPT !.des = dl.tmp, !.tmp = "absent",
                                  !.pc = "true"]
                  ELSE Except(dl)
    /\ UNCHANGED <<main, cat, det, cmp, tog, lib>>

NextDownload ==
    \/ DlLoop
    \/ DlRemoveTmp
    \/ \E outcome \in {"ok", "error", "status", "hang"},
          blocks \in 1 .. MaxBlocks : DlGet(outcome, blocks)
    \/ \E ok \in BOOLEAN : DlOpen(ok)
    \/ \E ok \in BOOLEAN : DlWrite(ok)
    \/ DlClose
    \/ \E ok \in BOOLEAN : DlMove(ok)

SpecDownload == InitDownload /\ [][NextDownload]_vars


----------------------------------------------------------------------------
(* Info.__init__: the board catalog info.json is read into board_boot,      *)
(* board_normal and dic_config, one step per loop iteration.                *)

BoardNames == {"wio", "m0"}
CatPairs == {"P1", "P2"}
CatEntries == [name : BoardNames, pvid : CatPairs]
CatLists == UNION {[1 .. n -> CatEntries] : n \in 0 .. MaxEntries}

\* fmt % name with fmt = 'config-%s.json'
Fmt(name) == <<"config-", name, ".json">>

\* dict.setdefault(key, value): an existing key keeps its value
SetDefault(d, key, value) ==
    IF key \in DOMAIN d THEN d
    ELSE [p \in DOMAIN d \cup {key} |-> IF p = key THEN value ELSE d[p]]

\* d[key] = value
SetItem(d, key, value) ==
    [p \in DOMAIN d \cup {key} |-> IF p = key THEN value ELSE d[p]]

InitCatalog ==
    /\ MainRest
    /\ dl = DlIdle /\ det = DetIdle /\ cmp = CmpIdle
    /\ tog = TogIdle /\ lib = LibIdle
    /\ cat \in {[CatIdle EXCEPT !.pc = "start",
                                !.inf = [boot |-> b, normal |-> n]] :
                  b \in CatLists, n \in CatLists}

\* open(self.info_path), json.loads, and the three clear() calls; an
\* unreadable file raises out of the constructor
CatOpen(ok) ==
    /\ cat.pc = "start"
    /\ cat' = IF ok
              THEN [cat EXCEPT !.pc = "boot", !.k = 1, !.board_boot = <<>>,
                               !.board_normal = <<>>,
                               !.dic_config = [p \in {} |-> <<>>]]
              ELSE [cat EXCEPT !.pc = "failed"]
    /\ UNCHANGED <<main, dl, det, cmp, tog, lib>>

\* for board in inf['boot']
CatBoot ==
    /\ cat.pc = "boot"
    /\ cat' = IF cat.k > Len(cat.inf.boot)
              THEN [cat EXCEPT !.pc = "normal", !.k = 1]
              ELSE LET board == cat.inf.boot[cat.k]
                   IN  [cat EXCEPT
                          !.dic_config = SetDefault(@, board.pvid,
                                                    Fmt(board.name)),
                          !.board_boot = Append(@, board.pvid),
                          !.k = @ + 1]
    /\ UNCHANGED <<main, dl, det, cmp, tog, lib>>

\* mutant of CatNormal: the config name is assigned, not set by default
CatNormalAssigns ==
    /\ cat.pc = "normal"
    /\ cat' = IF cat.k > Len(cat.inf.normal)
              THEN [cat EXCEPT !.pc = "loaded"]
              ELSE LET board == cat.inf.normal[cat.k]
                   IN  [cat EXCEPT
                          !.dic_config = SetItem(@, board.pvid,
                                                 Fmt(board.name)),
                          !.board_normal = Append(@, board.pvid),
                          !.k = @ + 1]
    /\ UNCHANGED <<main, dl, det, cmp, tog, lib>>

\* for board in inf['normal']
CatNormal ==
    /\ cat.pc = "normal"
    /\ cat' = IF cat.k > Len(cat.inf.normal)
              THEN [cat EXCEPT !.pc = "loaded"]
              ELSE LET board == cat.inf.normal[cat.k]
                   IN  [cat EXCEPT
                          !.dic_config = SetDefault(@, board.pvid,
                                                    Fmt(board.name)),
                          !.board_normal = Append(@, board.pvid),
                          !.k = @ + 1]
    /\ UNCHANGED <<main, dl, det, cmp, tog, lib>>

NextCatalog ==
    \/ \E ok \in BOOLEAN : CatOpen(ok)
    \/ CatBoot
    \/ CatNormal

SpecCatalog == InitCatalog /\ [][NextCatalog]_vars


----------------------------------------------------------------------------
(* SeeedMode.__asyc_detect_new_device_handle over a catalog and a list of   *)
(* attached ports that carry their names, one step per loop iteration.      *)

\* a vendor/product pair no catalog lists
DetPairs == CatPairs \cup {"X"}
DetCatLists == UNION {[1 .. n -> CatPairs] : n \in 0 .. MaxEntries}

\* QSerialPortInfo.availablePorts(): every attached port has its own name
DetPortLists ==
    {p \in UNION {[1 .. n -> [name : DeviceNames, pvid : DetPairs]] :
                    n \in 1 .. MaxPorts} :
       \A i, j \in 1 .. Len(p) : i # j => p[i].name # p[j].name}

\* str(valid)
Str(valid) == <<"str", valid>>

\* the handler is called with the name of an attached port; in_bootload_mode
\* holds what an earlier event left
InitDetect ==
    /\ MainRest
    /\ dl = DlIdle /\ cat = CatIdle /\ cmp = CmpIdle
    /\ tog = TogIdle /\ lib = LibIdle
    /\ det \in {[DetIdle EXCEPT !.pc = "start", !.device_name = d,
                                !.ports = p, !.board_boot = b,
                                !.board_normal = n,
                                !.in_bootload_mode = m] :
                  d \in DeviceNames, p \in DetPortLists, b \in DetCatLists,
                  n \in DetCatLists, m \in BOOLEAN}
    /\ \E i \in 1 .. Len(det.ports) : det.ports[i].name = det.device_name

\* lines 816-819
DetReset ==
    /\ det.pc = "start"
    /\ det' = [det EXCEPT !.pc = "scan", !.board_id = "None",
                          !.board_name = det.device_name, !.k = 1]
    /\ UNCHANGED <<main, dl, cat, cmp, tog, lib>>

\* lines 821-838: one port of available_ports, matched against board_normal
\* and then against board_boot
DetPort ==
    /\ det.pc = "scan"
    /\ det' = IF det.k > Len(det.ports) THEN [det EXCEPT !.pc = "set"]
              ELSE LET pvid == det.ports[det.k].pvid
                   IN  IF InSeq(pvid, det.board_normal)
                       THEN [det EXCEPT !.board_id = Str(pvid),
                                        !.in_bootload_mode = FALSE,
                                        !.pc = "set"]
                       ELSE IF InSeq(pvid, det.board_boot)
                       THEN [det EXCEPT !.board_id = Str(pvid),
                                        !.in_bootload_mode = TRUE,
                                        !.pc = "set"]
                       ELSE [det EXCEPT !.k = @ + 1]
    /\ UNCHANGED <<main, dl, cat, cmp, tog, lib>>

\* line 840
DetDetected ==
    /\ det.pc = "set"
    /\ det' = [det EXCEPT !.detected = TRUE, !.pc = "done"]
    /\ UNCHANGED <<main, dl, cat, cmp, tog, lib>>

NextDetect ==
    \/ DetReset
    \/ DetPort
    \/ DetDetected

SpecDetect == InitDetect /\ [][NextDetect]_vars


----------------------------------------------------------------------------
(* The version comparison of update(): the text of the metadata version and *)
(* the text in front of the banner marker are parsed by strptime and        *)
(* compared as datetimes. a and b are the dates the two texts denote.       *)

Dates == [y : BaseYear .. BaseYear + MaxYears, m : 1 .. MaxMonth,
          d : 1 .. MaxDay]

DigitChars == <<"0", "1", "2", "3", "4", "5", "6", "7", "8", "9">>
DigitOf(c) == (CHOOSE j \in 1 .. 10 : DigitChars[j] = c) - 1

\* n written with w decimal digits
RECURSIVE Digits(_, _)
Digits(n, w) == IF w = 0 THEN <<>>
                ELSE Append(Digits(n \div 10, w - 1),
                            DigitChars[(n % 10) + 1])

\* the text 'YYYY-MM-DD' of a date
Format(date) ==
    Digits(date.y, 4) \o <<"-">> \o Digits(date.m, 2) \o <<"-">>
        \o Digits(date.d, 2)

\* the number a text of digits denotes
RECURSIVE Num(_)
Num(s) == IF s = <<>> THEN 0
          ELSE 10 * Num(SubSeq(s, 1, Len(s) - 1)) + DigitOf(s[Len(s)])

\* mutant of strptime: the format '%Y-%d-%m'
strptimeDayMonth(value) ==
    [y |-> Num(SubSeq(value, 1, 4)), m |-> Num(SubSeq(value, 9, 10)),
     d |-> Num(SubSeq(value, 6, 7))]

\* datetime.datetime.strptime(value, '%Y-%m-%d')
strptime(value) ==
    [y |-> Num(SubSeq(value, 1, 4)), m |-> Num(SubSeq(value, 6, 7)),
     d |-> Num(SubSeq(value, 9, 10))]

\* datetime > datetime: year, then month, then day
DateGt(p, q) ==
    \/ p.y > q.y
    \/ p.y = q.y /\ p.m > q.m
    \/ p.y = q.y /\ p.m = q.m /\ p.d > q.d

Marker == "; Ardupy with seeed"

InitCompare ==
    /\ MainRest
    /\ dl = DlIdle /\ cat = CatIdle /\ det = DetIdle
    /\ tog = TogIdle /\ lib = LibIdle
    /\ cmp \in {[CmpIdle EXCEPT !.pc = "start", !.a = p, !.b = q,
                                !.cfg = Format(p),
                                !.tmp = Format(q) \o <<Marker>>] :
                  p \in Dates, q \in Dates}

\* new_version = self.info.version
CmpVersion ==
    /\ cmp.pc = "start"
    /\ cmp' = [cmp EXCEPT !.new_version = strptime(cmp.cfg), !.pc = "probe"]
    /\ UNCHANGED <<main, dl, cat, det, tog, lib>>

\* r = tmp.index('; Ardupy with seeed'); ver = tmp[r - 10:r]; strptime(ver)
CmpProbe ==
    /\ cmp.pc = "probe"
    /\ LET r == CHOOSE j \in 1 .. Len(cmp.tmp) : cmp.tmp[j] = Marker
           verText == SubSeq(cmp.tmp, r - 10, r - 1)
       IN  cmp' = [cmp EXCEPT !.dev = strptime(verText), !.pc = "compare"]
    /\ UNCHANGED <<main, dl, cat, det, tog, lib>>

\* need_update = new_version > strptime(ver)
CmpDecide ==
    /\ cmp.pc = "compare"
    /\ cmp' = [cmp EXCEPT !.need_update = DateGt(cmp.new_version, cmp.dev),
                          !.pc = "done"]
    /\ UNCHANGED <<main, dl, cat, det, tog, lib>>

NextCompare ==
    \/ CmpVersion
    \/ CmpProbe
    \/ CmpDecide

SpecCompare == InitCompare /\ [][NextCompare]_vars


----------------------------------------------------------------------------
(* The panes of SeeedMode: toggle_repl, toggle_plotter, toggle_files, run   *)
(* and the slot of set_all_button. fs, repl and plotter say whether the     *)
(* pane is open; files, run, replb and plotterb whether the button is       *)
(* enabled. MicroPythonMode.toggle_repl / toggle_plotter open the pane when *)
(* it is closed (which fails without a device) and close it when it is open.*)
(* message is the last message the mode has shown.                          *)

InitToggles ==
    /\ MainRest
    /\ dl = DlIdle /\ cat = CatIdle /\ det = DetIdle /\ cmp = CmpIdle
    /\ lib = LibIdle
    /\ tog = TogIdle

\* check_firmware_existence(): the hint is shown when has_firmware is False
NoFirmware(t) == [t EXCEPT !.message = "denit"]

\* the body of toggle_repl after check_firmware_existence; added: the
\* result of add_repl
ToggledRepl(t, added) ==
    IF ~t.fs
    THEN IF t.repl
         THEN [t EXCEPT !.repl = FALSE, !.files = TRUE]
         ELSE IF added THEN [t EXCEPT !.repl = TRUE, !.files = FALSE]
              ELSE t
    ELSE [t EXCEPT !.message = "repl_fs"]

\* toggle_repl(event)
ToggleRepl(added) ==
    /\ tog' = IF tog.has_firmware THEN ToggledRepl(tog, added)
              ELSE NoFirmware(tog)
    /\ UNCHANGED <<main, dl, cat, det, cmp, lib>>

\* toggle_plotter(event)
TogglePlotter(added) ==
    /\ tog' = IF ~tog.has_firmware THEN NoFirmware(tog)
              ELSE IF tog.fs THEN [tog EXCEPT !.message = "plotter_fs"]
              ELSE LET p == IF tog.plotter THEN FALSE ELSE added
                   IN  [tog EXCEPT !.plotter = p,
                                   !.files = IF p THEN FALSE
                                             ELSE IF ~tog.repl THEN TRUE
                                             ELSE @]
    /\ UNCHANGED <<main, dl, cat, det, cmp, lib>>

\* toggle_files(event); added: add_fs found the device
ToggleFiles(added) ==
    /\ tog' = IF ~tog.has_firmware THEN NoFirmware(tog)
              ELSE IF tog.repl THEN [tog EXCEPT !.message = "fs_repl"]
              ELSE IF ~tog.fs
              THEN IF added
                   THEN [tog EXCEPT !.fs = TRUE, !.run = FALSE,
                                    !.replb = FALSE, !.plotterb = FALSE]
                   ELSE [tog EXCEPT !.message = "no_device"]
              ELSE [tog EXCEPT !.fs = FALSE, !.run = TRUE, !.replb = TRUE,
                               !.plotterb = TRUE]
    /\ UNCHANGED <<main, dl, cat, det, cmp, lib>>

\* run(): without a tab a message is shown; the REPL is opened when closed
RunScript(hasTab, added) ==
    /\ tog' = IF ~hasTab THEN [tog EXCEPT !.message = "no_tab"]
              ELSE IF tog.repl THEN tog
              ELSE IF tog.has_firmware THEN ToggledRepl(tog, added)
              ELSE NoFirmware(tog)
    /\ UNCHANGED <<main, dl, cat, det, cmp, lib>>

\* __set_all_button(state), the slot of the worker's set_all_button signal
SetAllButton(state) ==
    /\ tog' = [tog EXCEPT !.files = state, !.run = state, !.replb = state,
                          !.plotterb = state]
    /\ UNCHANGED <<main, dl, cat, det, cmp, lib>>

\* info.has_firmware: reset by a detection event, set by a parsed probe
SetHasFirmware(value) ==
    /\ tog' = [tog EXCEPT !.has_firmware = value]
    /\ UNCHANGED <<main, dl, cat, det, cmp, lib>>

NextToggles ==
    \/ \E added \in BOOLEAN : ToggleRepl(added)
    \/ \E added \in BOOLEAN : TogglePlotter(added)
    \/ \E added \in BOOLEAN : ToggleFiles(added)
    \/ \E hasTab \in BOOLEAN, added \in BOOLEAN : RunScript(hasTab, added)
    \/ \E state \in BOOLEAN : SetAllButton(state)
    \/ \E value \in BOOLEAN : SetHasFirmware(value)

SpecToggles == InitToggles /\ [][NextToggles]_vars


----------------------------------------------------------------------------
(* FirmwareUpdater.update_lib. list is the remote library list: for each    *)
(* library whether its name is missing from lib_dic ("missing"), its        *)
(* version is newer than the one in lib_dic ("newer") or not ("same").      *)
(* listFile, info and zips are the files libaray.json, info.json and the    *)
(* downloaded archives; info is "old", "part" (truncated or incompletely    *)
(* written) or "new". The directories unzip() extracts to are not modelled. *)

LibLists ==
    UNION {[1 .. n -> {"missing", "newer", "same"}] : n \in 0 .. MaxLibs}

InitLib ==
    /\ MainRest
    /\ dl = DlIdle /\ cat = CatIdle /\ det = DetIdle /\ cmp = CmpIdle
    /\ tog = TogIdle
    /\ lib \in {[LibIdle EXCEPT !.pc = "start", !.list = l] : l \in LibLists}

\* lines 548-552: extract(), then download() of the library list
LibList(ok) ==
    /\ lib.pc = "start"
    /\ lib' = IF ok THEN [lib EXCEPT !.listFile = "new", !.pc = "check",
                                     !.k = 1]
              ELSE [lib EXCEPT !.pc = "done"]
    /\ UNCHANGED <<main, dl, cat, det, cmp, tog>>

\* lines 562-574 and 585-586: the next library of the list, or its end
LibCheck ==
    /\ lib.pc = "check"
    /\ lib' = IF lib.k > Len(lib.list)
              THEN [lib EXCEPT !.pc = IF lib.has_new THEN "open" ELSE "done"]
              ELSE IF lib.list[lib.k] = "same"
              THEN [lib EXCEPT !.k = @ + 1]
              ELSE [lib EXCEPT !.pc = "fetch"]
    /\ UNCHANGED <<main, dl, cat, det, cmp, tog>>

\* lines 575-577: download() of the archive
LibFetch(ok) ==
    /\ lib.pc = "fetch"
    /\ lib' = IF ok THEN [lib EXCEPT !.zips = @ \cup {lib.k}, !.pc = "unzip"]
              ELSE [lib EXCEPT !.pc = "done"]
    /\ UNCHANGED <<main, dl, cat, det, cmp, tog>>

\* lines 581-584: unzip()
LibUnzip(ok) ==
    /\ lib.pc = "unzip"
    /\ lib' = IF ok THEN [lib EXCEPT !.has_new = TRUE, !.k = @ + 1,
                                     !.pc = "check"]
              ELSE [lib EXCEPT !.pc = "done"]
    /\ UNCHANGED <<main, dl, cat, det, cmp, tog>>

\* line 590: open(self.info.info_path, 'w') truncates info.json; an open
\* that fails raises out of update_lib() and run()
LibOpenInfo(ok) ==
    /\ lib.pc = "open"
    /\ lib' = IF ok THEN [lib EXCEPT !.info = "part", !.pc = "dump"]
              ELSE [lib EXCEPT !.pc = "raised"]
    /\ UNCHANGED <<main, dl, cat, det, cmp, tog>>

\* lines 591-593: json.dump(inf, f) and the end of the with block; a write
\* that fails closes the file and raises
LibDump(ok) ==
    /\ lib.pc = "dump"
    /\ lib' = IF ok THEN [lib EXCEPT !.info = "new", !.pc = "done"]
              ELSE [lib EXCEPT !.pc = "raised"]
    /\ UNCHANGED <<main, dl, cat, det, cmp, tog>>

NextLib ==
    \/ \E ok \in BOOLEAN : LibList(ok)
    \/ LibCheck
    \/ \E ok \in BOOLEAN : LibFetch(ok)
    \/ \E ok \in BOOLEAN : LibUnzip(ok)
    \/ \E ok \in BOOLEAN : LibOpenInfo(ok)
    \/ \E ok \in BOOLEAN : LibDump(ok)

SpecLib == InitLib /\ [][NextLib]_vars


----------------------------------------------------------------------------
(* What a session did, read from its log.  phase1 records that the last     *)
(* finished session was phase one of the two-phase update.                  *)

Switches(l) == Count("switch_ok", l) + Count("switch_fail", l)
Flashes(l) == Count("flash_run", l)
Prompts(l) == Count("confirm", l)
StatusEvents == {"st_flashing", "st_success", "st_fail"}

\* update() has returned and run() has not yet cleared detected
Returned == pc = "clear"

----------------------------------------------------------------------------
(* C1: at most one update() call is in progress and at most one flashing   *)
(* tool process runs at any time; the tool runs only inside the one        *)
(* session, whatever detection events the UI thread fires meanwhile.       *)
C1_OneSessionAtATime ==
    /\ active \in {0, 1}
    /\ flashProcs \in {0, 1}
    /\ (active = 1) <=> InSession
    /\ (flashProcs = 1) <=> (pc = "flashing")

\* a detection handler is running on the UI thread while the tool flashes
C1_DetectionWhileFlashing ==
    /\ pc = "flashing" /\ uipc = "scan"
    /\ active = 1 /\ flashProcs = 1

(* C2 (as claimed): a detection event that arrived during a session is     *)
(* deferred: when the worker is back in its wait loop and an event has not *)
(* been followed by the start of an update(), detected is still set.       *)
C2_DeferredNotLost ==
    (pc = "wait" /\ unserved) => detected

(* C3 (as claimed): every mode switch and every run of the flashing tool   *)
(* uses up an authorisation given by an accepted prompt since the last     *)
(* completed flash; one accepted prompt gives one switch and one flash.    *)
C3_PromptBeforeSwitchOrFlash ==
    [][/\ (Switches(log') > Switches(log)) => credit.sw = 1
       /\ (Flashes(log') > Flashes(log)) => credit.fl = 1]_vars

(* C4 (as claimed): the step of a session that decides between mode switch *)
(* and flash and names the port reads the mode and the port the session    *)
(* started with.                                                           *)
C4_IdentityImmutable ==
    [][(pc = "dtb_act" /\ pc' # "dtb_act")
         => (in_bootload_mode = sess.boot /\ board_name = sess.name)]_vars

(* C5 (as claimed): no error escapes update(): the worker thread never     *)
(* ends, it always returns to its wait loop.                               *)
C5_NoErrorEscapes ==
    pc # "crashed"


(* C6: the two-phase update, for sessions no detection event interferes    *)
(* with.  Phase one: a normal-mode session whose probe reports a version   *)
(* older than the metadata asks exactly once; when the user accepts, the   *)
(* session switches the mode once, does not flash, and leaves the          *)
(* confirmation pre-cleared.  Phase two: the session of a bootloader-mode  *)
(* detection that starts pre-cleared, with the metadata cached, asks       *)
(* nothing, does not probe, does not fail, and flashes exactly once.       *)
C6_TwoPhaseUpdate ==
    /\ (/\ ~sess.disturbed
        /\ sess.nc /\ ~sess.boot
        /\ sess.probed >= 0 /\ sess.probed < new_version)
         => /\ pc \in {"dtb", "confirm", "dtb_act", "clear"}
            /\ Prompts(log) = (IF pc = "dtb" THEN 0 ELSE 1)
            /\ Flashes(log) = 0
            /\ Switches(log) = (IF Returned /\ InSeq("yes", log) THEN 1 ELSE 0)
            /\ (Returned /\ InSeq("yes", log)) => ~need_confirm
    /\ (/\ ~sess.disturbed /\ (InSession \/ Returned \/ pc = "crashed")
        /\ ~sess.nc /\ sess.boot
        /\ InSeq(board_id, board_boot) /\ cfgFile.ok)
         => /\ Prompts(log) = 0
            /\ pc \notin {"probe", "probe_read", "confirm", "crashed"}
            /\ Returned => (Flashes(log) = 1 /\ Switches(log) = 0)

\* the session after an accepted, undisturbed mode switch (cached version
\* older than the remote one, probed version older too) has flashed without
\* asking
C6_FlashedAfterSwitch ==
    /\ phase1
    /\ Returned /\ ~sess.disturbed
    /\ ~sess.nc /\ sess.boot /\ InSeq(board_id, board_boot)
    /\ Prompts(log) = 0 /\ Flashes(log) = 1

(* C7: once the probe of a session has reported a version that is not      *)
(* older than the metadata version, the session has returned, and it has   *)
(* asked nothing, switched nothing and flashed nothing.                    *)
C7_NoUpdateShortCircuit ==
    (sess.probed >= 0 /\ sess.probed >= new_version)
      => /\ Returned
         /\ Prompts(log) = 0 /\ Switches(log) = 0 /\ Flashes(log) = 0
         /\ log = <<"latest">>

\* the probe reported exactly the metadata version
C7_ProbedEqualVersion ==
    /\ Returned /\ sess.probed >= 0 /\ sess.probed = new_version
    /\ log = <<"latest">>

(* C8: the success dialog and the 'Flashing success.' status appear in a   *)
(* session only after the tool ran in it and exited with status zero; when *)
(* it exited non-zero only the failure status is emitted.                  *)
C8_SuccessOnlyAfterExitZero ==
    /\ (InSeq("msgbox", log) \/ InSeq("st_success", log))
         => (InSeq("flash_run", log) /\ InSeq("exit_ok", log))
    /\ InSeq("exit_fail", log)
         => /\ ~InSeq("msgbox", log) /\ ~InSeq("st_success", log)
            /\ InSeq("st_fail", log)

\* a session has reported success
C8_SuccessReported ==
    Returned /\ InSeq("exit_ok", log) /\ InSeq("msgbox", log)

C10_SwitchFailureReported ==
    (Returned /\ InSeq("switch_fail", log))
      => \E j \in 1 .. Len(log) : log[j] \in StatusEvents

(* C11: a declined prompt ends the session with nothing done: the session  *)
(* has returned, its whole output is the request and the refusal (no       *)
(* set_all_button, no switch, no flash) and need_confirm is still True.    *)
(* An accepted prompt of a normal-mode session that no detection event     *)
(* interferes with leads to exactly one mode switch and no flash.          *)
C11_DeclineHasNoEffect ==
    /\ InSeq("no", log)
         => /\ Returned
            /\ log = <<"confirm", "no">>
            /\ need_confirm
    /\ (Returned /\ InSeq("yes", log) /\ ~sess.disturbed /\ ~sess.boot)
         => (Switches(log) = 1 /\ Flashes(log) = 0)

\* the user has declined the prompt of a session
C11_Declined ==
    Returned /\ InSeq("no", log) /\ need_confirm /\ buttons = "none"

C16_LazyImageFetch ==
    [][ /\ (pc = "download" /\ pc' = "mode")
           => (sess'.fwTried <=> /\ sess'.remoteOk
                                 /\ old_version < new_version'
                                 /\ config'.name \notin fwFiles)
        /\ (sess'.fwTried /\ ~sess.fwTried)
           => (pc = "download" /\ pc' = "mode")
        /\ fwFiles' # fwFiles => (sess'.fwTried /\ ~sess.fwTried) ]_vars

C16_ImageSkipped ==
    /\ pc = "mode"
    /\ sess.remoteOk /\ ~sess.fwTried
    /\ old_version < new_version
    /\ config.name \in fwFiles

C18_PortOpenOnlyWhileProbing ==
    comOpen => pc = "probe_read"

C18_ClosedAfterUnreadableAnswer ==
    sess.probed = -1 /\ pc = "dtb" /\ ~comOpen

\* C19: while an emitted ConfirmFlag is unanswered the worker is at the
\* is_confirm poll and has no enabled step, so it neither switches, flashes,
\* reports nor starts a session; it leaves the poll only on an answered flag,
\* towards the switch or flash exactly when the answer is yes and towards
\* the end of the session when it is no.
C19_WorkerWaitsForAnswer ==
    /\ [](flag.confirm = "None" => (pc = "confirm" /\ ~ENABLED DtbConfirmed))
    /\ [][ /\ (flag.confirm = "None" /\ flag'.confirm = "None")
              => UNCHANGED <<pc, log, active, need_confirm, buttons, files,
                             comOpen, flashProcs>>
           /\ (pc = "confirm" /\ pc' # "confirm")
              => /\ flag.confirm \in {"yes", "no"}
                 /\ pc' = IF flag.confirm = "yes" THEN "dtb_act" ELSE "clear"
                 /\ log' = Append(log, flag.confirm) ]_vars

C19_AnsweredYes ==
    pc = "confirm" /\ flag.confirm = "yes" /\ ENABLED DtbConfirmed

\* C12: when download() has returned, des_path holds the complete response
\* (after True) or exactly what it held before the call (after False).
C12_DestinationIntactOnFailure ==
    dl.pc \in {"true", "false"}
        => dl.des = IF dl.pc = "true" THEN "new" ELSE dl.pre

\* C13: a failed call has made try_time requests, a successful one stops at
\* its first good attempt, and whenever an attempt has failed no partial
\* temporary file of it survives the start of the next one.
C13_AttemptsAndCleanTmp ==
    /\ dl.pc = "false" => (dl.i = TryTime /\ dl.reqs = TryTime)
    /\ dl.pc = "true" => (dl.reqs = dl.i + 1 /\ dl.reqs <= TryTime)
    /\ dl.pc \in {"get", "open"} => dl.tmp = "absent"

\* C14: a call of download() that has not returned can always take a step.
C14_DownloadTerminates ==
    dl.pc \in {"true", "false"} \/ ENABLED NextDownload

FirstName(list, p) ==
    list[CHOOSE j \in 1 .. Len(list) :
            /\ list[j].pvid = p
            /\ \A h \in 1 .. j - 1 : list[h].pvid # p].name

C23_DownloadBeforeEveryCompare ==
    [][(pc' = "mode" /\ pc # "mode") => pc = "download"]_vars

\* C23: a session that requires confirmation attempts the metadata
\* download before its version is compared or used; a session whose
\* confirmation was cleared by a mode switch attempts no download and takes
\* the version of the cached config file, which it leaves as it is.
C23_DownloadUnlessPreCleared ==
    [][(pc' = "mode" /\ pc # "mode")
        => IF sess.nc
           THEN pc = "download"
           ELSE /\ pc = "update"
                /\ ~need_confirm
                /\ cfgFile.ok
                /\ new_version' = cfgFile.version
                /\ UNCHANGED <<cfgFile, fwFiles>>]_vars

C23_CachedVersionAfterSwitch ==
    /\ phase1 /\ ~sess.nc /\ ~sess.disturbed
    /\ pc = "mode"
    /\ new_version = cfgFile.version

\* C26: a session that started with the confirmation cleared and ran no
\* flash has need_confirm True again when update() returns.
C26_PreClearanceLastsOneSession ==
    (Returned /\ ~sess.nc /\ Flashes(log) = 0) => need_confirm

\* C27: when update() returns from a session that made no mode switch, the
\* last value emitted on set_all_button is not False.
C27_ButtonsReenabled ==
    (Returned /\ Switches(log) = 0) => buttons # "off"

\* C28: the flashing tool runs only with a loaded config whose firmware
\* image is at the local firmware path.
C28_FlashOnlyWithLocalImage ==
    pc = "flashing" => (config.ok /\ config.name \in fwFiles)

\* C30: has_firmware becomes True only by the answer to a probe, and the
\* port that probe had opened is the one the most recent detection event
\* named.
C30_FirmwareFlagOfLatestDetection ==
    [][(has_firmware' /\ ~has_firmware)
        => (pc = "probe_read" /\ sess.port = board_name)]_vars

\* the pair of the port the detection event names
DevicePvid ==
    det.ports[CHOOSE i \in 1 .. Len(det.ports) :
                 det.ports[i].name = det.device_name].pvid

\* C21: with a catalog of unique keys, a finished detection of a device
\* whose pair is in the boot set has recorded that pair and bootloader mode,
\* and of a device whose pair is in the normal set that pair and normal mode.
C21_DetectionResolvesDevice ==
    (/\ det.pc = "done"
     /\ \A i \in 1 .. Len(det.board_boot) :
           ~InSeq(det.board_boot[i], det.board_normal))
    => /\ InSeq(DevicePvid, det.board_boot)
            => (det.board_id = Str(DevicePvid) /\ det.in_bootload_mode)
       /\ InSeq(DevicePvid, det.board_normal)
            => (det.board_id = Str(DevicePvid) /\ ~det.in_bootload_mode)

\* C29: the board_id a finished detection has recorded is the pair of the
\* port whose name it has recorded as board_name.
C29_IdentityOfNamedPort ==
    (det.pc = "done" /\ det.board_id # "None")
    => (det.board_name = det.device_name /\ det.board_id = Str(DevicePvid))

\* the number of days from the first day of BaseYear to a date
LeapYear(y) == y % 4 = 0 /\ (y % 100 # 0 \/ y % 400 = 0)
DaysInMonth(y, m) ==
    IF m = 2 THEN (IF LeapYear(y) THEN 29 ELSE 28)
    ELSE IF m \in {4, 6, 9, 11} THEN 30 ELSE 31
RECURSIVE DaysBeforeMonth(_, _)
DaysBeforeMonth(y, m) ==
    IF m = 1 THEN 0 ELSE DaysBeforeMonth(y, m - 1) + DaysInMonth(y, m - 1)
RECURSIVE DaysBeforeYear(_)
DaysBeforeYear(y) ==
    IF y = BaseYear THEN 0
    ELSE DaysBeforeYear(y - 1) + (IF LeapYear(y - 1) THEN 366 ELSE 365)
Ordinal(date) ==
    DaysBeforeYear(date.y) + DaysBeforeMonth(date.y, date.m) + date.d

\* C22: the parsed versions are the dates the texts denote; of
\* new > dev, new = dev, dev > new exactly one holds; the order is calendar
\* order; and need_update is True exactly when the metadata date is later
\* than the date of the firmware on the device.
C22_VersionOrderIsCalendarOrder ==
    /\ cmp.pc \in {"probe", "compare", "done"} => cmp.new_version = cmp.a
    /\ cmp.pc \in {"compare", "done"}
         => /\ cmp.dev = cmp.b
            /\ LET gt == DateGt(cmp.new_version, cmp.dev)
                   lt == DateGt(cmp.dev, cmp.new_version)
                   eq == cmp.new_version = cmp.dev
               IN  /\ gt \/ lt \/ eq
                   /\ ~(gt /\ lt) /\ ~(gt /\ eq) /\ ~(lt /\ eq)
                   /\ gt <=> Ordinal(cmp.a) > Ordinal(cmp.b)
                   /\ lt <=> Ordinal(cmp.a) < Ordinal(cmp.b)
    /\ cmp.pc = "done"
         => (cmp.need_update <=> Ordinal(cmp.a) > Ordinal(cmp.b))

C22_LaterYearEarlierMonth ==
    /\ cmp.pc = "done"
    /\ cmp.need_update
    /\ cmp.a.y > cmp.b.y /\ cmp.a.m < cmp.b.m /\ cmp.a.d < cmp.b.d

\* C25: the file system pane is never open while the REPL or the plotter
\* is active.
C25_FilesExcludeReplAndPlotter ==
    ~(tog.fs /\ (tog.repl \/ tog.plotter))

\* C24: when update_lib() has ended, by a return or by an exception,
\* info.json holds its old or its new content, never a part of it.
C24_InfoNeverPartial ==
    lib.pc \in {"done", "raised"} => lib.info \in {"old", "new"}

====
